---- MODULE Spec2Model ----
(***************************************************************************)
(* Model of src/main.py, the progressive WebSocket connection stress       *)
(* tester: the connection worker (test_connection), the independent-mode   *)
(* batch coordinator (run_batch_test), the run loop of main() with both    *)
(* admission modes and its stop rule, and the final stability analysis.    *)
(*                                                                         *)
(* asyncio runs one coroutine at a time: a coroutine keeps the processor   *)
(* from one await to the next.  The controller (main / run_batch_test) is  *)
(* therefore written as steps between its awaits, and a worker may take a  *)
(* step only while the controller is suspended in an await (Suspended).    *)
(*                                                                         *)
(* A worker step ends one await of the worker and runs it to its next      *)
(* await or to its end: the connect, each send, each bounded recv, the     *)
(* interval wait and the close of the connection are one step each.  An    *)
(* await raises an Exception or nothing: the program cancels no task, and  *)
(* an interrupt of the process (KeyboardInterrupt, SystemExit) is outside  *)
(* the model.                                                              *)
(*                                                                         *)
(* Not modelled: wall-clock measurements (duration, connect_time, the      *)
(* latency values and their avg/min/max, except in SpecSamples), logging,  *)
(* system and network statistics.  success_rate is the float the source    *)
(* computes, in exact binary64 arithmetic.                                 *)
(***************************************************************************)
EXTENDS Integers, Sequences, FiniteSets, TLC

\* ---------------------------------------------------------------- bounds
MaxConn == 3          \* largest --max drawn
MaxConnectTime == 5   \* seconds a connect may take (the source sets no bound)
MaxSendTime == 3      \* seconds a send may take (the source sets no bound)
MaxCloseTime == 3     \* seconds closing a connection may take (no bound set)
MaxHistory == 3       \* longest history handed to the analyser on its own
MaxProbes == 2        \* keepalives of one worker followed in a sampled run

\* ------------------------------------------------------ program constants
HandshakeTimeout == 3
KeepaliveTimeout == 2
CheckInterval == 1

\* The configurations a run is drawn from: --start, --max, --increment,
\* --duration (seconds), --delay (seconds) and test.stability_threshold.
StartSet == {0, 1, 2}
MaxSet == 0..MaxConn
IncrementSet == {0, 1, 2}
DurationSet == {0, 1}
DelaySet == {0, 1}
ThresholdSet == {0, 50, 100, 101}

\* The round-trip times a sampled run may measure, in hundredths of a
\* millisecond (0.05 ms and 21.68 ms).
LatencySet == {5, 2168}

VARIABLES
  start_connections, max_connections, connection_increment, batch_duration,
  delay, stability_threshold, cumulative_mode,   \* the run's configuration
  timed,                  \* whether waits are given durations (SpecTimed)
  sampled,                \* whether latencies are measured (SpecSamples)
  pc,                     \* the controller's position
  batch_number, current_connections, total_connections,
  last_stable_batch,      \* <<>> (None) or <<the batch result>>
  batch_results,          \* the history
  all_active_tasks, all_end_events,
  end_event, tasks, num_new_connections, i, remaining,
  events,                 \* the asyncio.Event objects created so far
  workers,                \* the tasks created so far
  verdict                 \* <<>> until the final analysis has run

config == <<start_connections, max_connections, connection_increment,
            batch_duration, delay, stability_threshold, cumulative_mode, timed,
            sampled>>
control == <<pc, batch_number, current_connections, total_connections,
             last_stable_batch, batch_results, all_active_tasks, all_end_events,
             end_event, tasks, num_new_connections, i, remaining, verdict>>
vars == <<config, control, events, workers>>

\* ------------------------------------------------------------ helpers
Range(s) == {s[k] : k \in DOMAIN s}

\* ------------------------------------------- double-precision arithmetic
\* The latencies and success_rate are Python floats. A float is modelled
\* exactly, as a record [m, e] standing for m * 2^e, with the natural number
\* m held as a sequence of digits to the base 2^15, least significant first
\* (53 bits do not fit a TLC integer). Every operation rounds to 53 significant bits, to nearest,
\* ties to even, as IEEE 754 binary64 does.
Precision == 53

\* Extra bits carried through a division before rounding (on top of the
\* length of the divisor).
GuardBits == 64

DigitBits == 15
Base == 2^DigitBits

\* F(x) and F(x, y) with the arguments evaluated once: an operator's argument
\* is otherwise evaluated again at each of its uses.
Once(x, F(_)) == CHOOSE r \in {F(v) : v \in {x}} : TRUE
Once2(x, y, F(_, _)) == CHOOSE r \in {F(v, w) : v \in {x}, w \in {y}} : TRUE

\* The digits of a natural number that fits a TLC integer.
RECURSIVE NatDigits(_)
NatDigits(n) == IF n = 0 THEN <<>> ELSE <<n % Base>> \o NatDigits(n \div Base)

\* Bit j (from 0) of the number held in ds.
BitAt(ds, j) ==
  IF (j \div DigitBits) + 1 \in DOMAIN ds
    THEN (ds[(j \div DigitBits) + 1] \div 2^(j % DigitBits)) % 2
    ELSE 0

\* Index of the highest non-zero digit, 0 when there is none.
TopDigit(ds) ==
  Once(ds, LAMBDA hv :
    Once({k \in DOMAIN hv : hv[k] # 0}, LAMBDA nz :
      IF nz = {} THEN 0 ELSE CHOOSE k \in nz : \A other \in nz : other <= k))

\* Number of significant bits of one digit.
DigitLen(d) ==
  IF d = 0 THEN 0 ELSE CHOOSE b \in 1..DigitBits : 2^(b - 1) <= d /\ d < 2^b

\* Number of significant bits.
BitLen(ds) ==
  Once2(ds, TopDigit(ds), LAMBDA dv, top :
    IF top = 0 THEN 0 ELSE DigitBits * (top - 1) + DigitLen(dv[top]))

\* ds without its leading zero digits.
Trim(ds) == Once(ds, LAMBDA tv : SubSeq(tv, 1, TopDigit(tv)))

\* ds * f + carry for a small natural f, from digit k up.
RECURSIVE MulFrom(_, _, _, _)
MulFrom(ds, f, k, carry) ==
  IF k > Len(ds) THEN NatDigits(carry)
  ELSE Once(ds[k] * f + carry, LAMBDA p :
         <<p % Base>> \o MulFrom(ds, f, k + 1, p \div Base))

\* ds * 2^s
ShiftLeft(ds, s) ==
  Once2(ds, s, LAMBDA lv, ls :
    IF ls = 0 THEN lv
    ELSE [k \in 1..(ls \div DigitBits) |-> 0] \o MulFrom(lv, 2^(ls % DigitBits), 1, 0))

DigitAt(ds, k) == IF k \in DOMAIN ds THEN ds[k] ELSE 0

RECURSIVE AddFrom(_, _, _, _, _)
AddFrom(ds, es, k, carry, last) ==
  IF k > last THEN NatDigits(carry)
  ELSE Once(DigitAt(ds, k) + DigitAt(es, k) + carry, LAMBDA p :
         <<p % Base>> \o AddFrom(ds, es, k + 1, p \div Base, last))

AddDigits(ds, es) ==
  Once2(ds, es, LAMBDA av, bv :
    AddFrom(av, bv, 1, 0, IF Len(av) > Len(bv) THEN Len(av) ELSE Len(bv)))

\* -1, 0 or 1 as ds < es, ds = es or ds > es, comparing from digit k down.
RECURSIVE CompareFrom(_, _, _)
CompareFrom(ds, es, k) ==
  IF k = 0 THEN 0
  ELSE IF DigitAt(ds, k) > DigitAt(es, k) THEN 1
  ELSE IF DigitAt(ds, k) < DigitAt(es, k) THEN -1
  ELSE CompareFrom(ds, es, k - 1)

CompareDigits(ds, es) ==
  Once2(ds, es, LAMBDA cv, dv :
    CompareFrom(cv, dv, IF Len(cv) > Len(dv) THEN Len(cv) ELSE Len(dv)))

\* Long division of the digits k..1 of ds by the small natural f, with `rem`
\* carried in from the digits above: quotient digits and final remainder.
RECURSIVE DivFrom(_, _, _, _)
DivFrom(ds, f, k, rem) ==
  IF k = 0 THEN [q |-> <<>>, r |-> rem]
  ELSE Once(rem * Base + ds[k], LAMBDA cur :
         Once(DivFrom(ds, f, k - 1, cur % f), LAMBDA rest :
           [q |-> Append(rest.q, cur \div f), r |-> rest.r]))

DivSmall(ds, f) == Once2(ds, f, LAMBDA qv, fv : DivFrom(qv, fv, Len(qv), 0))

\* ds \div 2^s
ShiftRight(ds, s) ==
  Once2(ds, s, LAMBDA rv, rs :
    DivSmall(SubSeq(rv, (rs \div DigitBits) + 1, Len(rv)), 2^(rs % DigitBits)).q)

\* Round the natural number in ds, followed by a non-zero fraction when
\* `sticky`, to Precision significant bits: the kept number m and the number
\* e of bits dropped (the result is m * 2^e).
RoundDigits(ds, sticky) ==
  Once(ds, LAMBDA nv :
    Once(BitLen(nv) - Precision, LAMBDA s :
      IF s <= 0 THEN [m |-> Trim(nv), e |-> 0]
      ELSE Once(ShiftRight(nv, s), LAMBDA kept :
             LET half == BitAt(nv, s - 1) = 1
                 below == sticky \/ \E j \in 0..(s - 2) : BitAt(nv, j) = 1
                 up == half /\ (below \/ BitAt(kept, 0) = 1)
             IN  [m |-> Trim(IF up THEN AddDigits(kept, <<1>>) ELSE kept), e |-> s])))

FloatZero == [m |-> <<>>, e |-> 0]

\* round(x, 2) of a latency of k hundredths of a millisecond: the float
\* nearest to k / 100.
FromHundredths(k) ==
  IF k = 0 THEN FloatZero
  ELSE Once(DivSmall(ShiftLeft(NatDigits(k), GuardBits), 100), LAMBDA d :
         Once(RoundDigits(d.q, d.r # 0), LAMBDA r :
           [m |-> r.m, e |-> r.e - GuardBits]))

\* x + y
FloatAdd(x, y) ==
  Once2(x, y, LAMBDA xa, ya :
    IF xa.m = <<>> THEN ya
    ELSE IF ya.m = <<>> THEN xa
    ELSE LET e0 == IF xa.e < ya.e THEN xa.e ELSE ya.e
         IN  Once(RoundDigits(AddDigits(ShiftLeft(xa.m, xa.e - e0),
                                        ShiftLeft(ya.m, ya.e - e0)), FALSE),
                  LAMBDA r : [m |-> r.m, e |-> e0 + r.e]))

\* x / count for a positive integer count (the float of count is exact)
FloatDivInt(x, count) ==
  Once2(x, count, LAMBDA xd, cd :
    IF xd.m = <<>> THEN FloatZero
    ELSE Once(GuardBits + BitLen(NatDigits(cd)), LAMBDA shift :
           Once(DivSmall(ShiftLeft(xd.m, shift), cd), LAMBDA d :
             Once(RoundDigits(d.q, d.r # 0), LAMBDA r :
               [m |-> r.m, e |-> xd.e - shift + r.e]))))

\* x <= y
FloatLE(x, y) ==
  Once2(x, y, LAMBDA xl, yl :
    IF xl.m = <<>> THEN TRUE
    ELSE IF yl.m = <<>> THEN FALSE
    ELSE LET e0 == IF xl.e < yl.e THEN xl.e ELSE yl.e
         IN  CompareDigits(ShiftLeft(xl.m, xl.e - e0), ShiftLeft(yl.m, yl.e - e0)) <= 0)

\* sum(response_times): left to right from the integer 0.
RECURSIVE FloatSum(_, _)
FloatSum(ks, upto) ==
  IF upto = 0 THEN FloatZero
  ELSE FloatAdd(FloatSum(ks, upto - 1), FromHundredths(ks[upto]))

\* min(response_times), max(response_times): elements of the list.
MinOf(ks) == CHOOSE v \in Range(ks) : \A w \in Range(ks) : v <= w
MaxOf(ks) == CHOOSE v \in Range(ks) : \A w \in Range(ks) : v >= w

\* sum(response_times) / len(response_times) if response_times else 0
AvgResponse(ks) ==
  Once(ks, LAMBDA kv :
    IF kv = <<>> THEN FloatZero ELSE FloatDivInt(FloatSum(kv, Len(kv)), Len(kv)))

\* An integer below 2^53 as a float (exact).
FromNat(n) == [m |-> NatDigits(n), e |-> 0]

\* x * f for a positive integer f (the float of f is exact)
FloatMulInt(x, f) ==
  Once2(x, f, LAMBDA xm, fm :
    IF xm.m = <<>> THEN FloatZero
    ELSE Once(RoundDigits(MulFrom(xm.m, fm, 1, 0), FALSE), LAMBDA r :
           [m |-> r.m, e |-> xm.e + r.e]))

\* x = y
FloatEQ(x, y) == Once2(x, y, LAMBDA xq, yq : FloatLE(xq, yq) /\ FloatLE(yq, xq))

\* ---------------------------------------------------------- success_rate
\* Mutant of SuccessRate: divides by the failed count instead of the attempted one.
SuccessRateOverFailed(successful, attempted) ==
  IF attempted > 0
    THEN FloatMulInt(FloatDivInt(FromNat(successful),
                                 IF attempted - successful > 0
                                   THEN attempted - successful ELSE 1), 100)
    ELSE FloatZero

\* len(successful)/num_connections*100 if num_connections > 0 else 0: a true
\* division of two ints rounded to a float, then a float multiplication.
SuccessRate(successful, attempted) ==
  IF attempted > 0
    THEN FloatMulInt(FloatDivInt(FromNat(successful), attempted), 100)
    ELSE FloatZero

\* Variant of RateGE with a strict comparison.
RateGT(rate, threshold) == ~FloatLE(rate, FromNat(threshold))

\* success_rate >= stability_threshold, on the float success_rate
RateGE(rate, threshold) == FloatLE(FromNat(threshold), rate)

\* success_rate < stability_threshold, on the float success_rate
RateLT(rate, threshold) == ~FloatLE(FromNat(threshold), rate)

\* ------------------------------------------------- ConnectionWorker
\* A task is a record: id (connection_id), batch (connection_batch), ev (the
\* index in events of the end_event it was given), pc (the await it is
\* suspended in), leaving (while the connection is being closed: "return" or
\* the exception the `async with` block is left with), result (<<>> while it
\* runs, then the one value the task ends with), late (seconds of waiting
\* spent since its end_event was set; stays 0 unless timed), response_times
\* (the local list of latencies, each in hundredths of a millisecond) and
\* keepalive_count (both stay empty / 0 unless sampled; keepalive_count is 0
\* from the start, where the source has no such variable yet).
NewTask(id, b, ev) ==
  [id |-> id, batch |-> b, ev |-> ev, pc |-> "connecting", leaving |-> "none",
   result |-> <<>>, late |-> 0, response_times |-> <<>>, keepalive_count |-> 0]

Live(w) ==
  w.pc \in {"connecting", "sending", "handshaking", "sending_keepalive", "probing",
            "waiting", "closing"}

\* The durations a wait bounded by `bound` may take.
Durations(bound) == IF timed THEN 0..bound ELSE {0}

\* end_event.is_set()
IsSet(ev) == events[ev].is_set

\* Waiting time counted against the worker once its signal is set.
Elapse(w, d) == IF IsSet(w.ev) THEN w.late + d ELSE w.late

\* The latencies a round trip may be measured at.
Latencies == IF sampled THEN LatencySet ELSE {0}

\* response_times.append(round(<elapsed> * 1000, 2))
Sample(w, ms) == IF sampled THEN Append(w.response_times, ms) ELSE w.response_times

\* The dict returned after the hold loop; its latency fields are followed
\* only when sampled.
SuccessResult(w) ==
  IF sampled
    THEN [id |-> w.id, batch |-> w.batch, success |-> TRUE, error |-> "None",
          response_times |-> w.response_times,
          avg_response |-> AvgResponse(w.response_times),
          min_response |-> IF w.response_times # <<>> THEN MinOf(w.response_times) ELSE 0,
          max_response |-> IF w.response_times # <<>> THEN MaxOf(w.response_times) ELSE 0,
          keepalive_count |-> w.keepalive_count]
    ELSE [id |-> w.id, batch |-> w.batch, success |-> TRUE, error |-> "None"]

\* Mutant of Catch: only asyncio.TimeoutError is caught, any other exception
\* leaves the coroutine.
CatchTimeoutOnly(w, exc) ==
  IF exc = "TimeoutError"
    THEN [pc |-> "returned",
          result |-> <<[id |-> w.id, batch |-> w.batch, success |-> FALSE,
                        error |-> "Timeout waiting for response"]>>]
    ELSE [pc |-> "raised", result |-> <<>>]

\* The except clauses of test_connection: what the task ends with when `exc`
\* is raised inside the try block.
Catch(w, exc) ==
  IF exc = "TimeoutError"
    THEN [pc |-> "returned",
          result |-> <<[id |-> w.id, batch |-> w.batch, success |-> FALSE,
                        error |-> "Timeout waiting for response"]>>]
    ELSE [pc |-> "returned",
          result |-> <<[id |-> w.id, batch |-> w.batch, success |-> FALSE,
                        error |-> "Exception"]>>]

\* The exception, if any, an await's outcome raises.
Raised(outcome) == IF outcome = "timeout" THEN "TimeoutError" ELSE "Exception"

\* A failure outside the `async with` block (websockets.connect() itself):
\* no connection was opened, the except clause runs at once.
Fail(w, outcome, d) ==
  LET c == Catch(w, Raised(outcome))
  IN  [w EXCEPT !.pc = c.pc, !.result = c.result, !.late = Elapse(w, d)]

\* Leaving the `async with` block with a return (leaving = "return") or with
\* the exception `leaving`, after an await that took d seconds: the close of
\* the connection (__aexit__) is awaited next.
Leave(w, leaving, d) ==
  [w EXCEPT !.pc = "closing", !.leaving = leaving, !.late = Elapse(w, d)]

\* A failure inside the block.
FailInside(w, outcome, d) == Leave(w, Raised(outcome), d)

\* What a close (the __aexit__ of `async with websockets.connect(...)`) may do.
CloseOutcomes == {"ok", "timeout", "error"}

\* The end of the task once the close is over: an exception raised by the
\* close replaces what the block was left with.
Exit(w, close) ==
  IF close # "ok" THEN Catch(w, Raised(close))
  ELSE IF w.leaving = "return"
    THEN [pc |-> "returned", result |-> <<SuccessResult(w)>>]
    ELSE Catch(w, w.leaving)

\* Variant of HoldLoopTest that never enters the loop.
HoldLoopTestNoLoop(w, d) == Leave(w, "return", d)

\* `while not end_event.is_set()`, after an await that took d seconds: leave
\* the loop, build the success dict and leave the block, or send the next
\* keepalive.
HoldLoopTest(w, d) ==
  IF IsSet(w.ev)
    THEN Leave(w, "return", d)
    ELSE [w EXCEPT !.pc = "sending_keepalive", !.late = Elapse(w, d)]

\* The controller is suspended in an await: tasks may run. (The worker steps
\* below draw their successor from the set of the records their outcomes
\* lead to: two outcomes with the same effect are one step.)
Suspended ==
  \/ pc \in {"launch_sleep", "settle", "gather", "pause", "cleanup_gather"}
  \/ pc = "hold" /\ remaining > 0

\* websockets.connect() completes or raises (asyncio.TimeoutError included:
\* the await is inside the try).
ConnectDone(t) ==
  /\ Suspended
  /\ workers[t].pc = "connecting"
  /\ \E next \in {IF outcome = "ok"
                     THEN [workers[t] EXCEPT !.pc = "sending",
                                             !.late = Elapse(workers[t], d)]
                     ELSE Fail(workers[t], outcome, d) :
                   outcome \in {"ok", "timeout", "error"},
                   d \in Durations(MaxConnectTime)} :
       workers' = [workers EXCEPT ![t] = next]
  /\ UNCHANGED <<config, control, events>>

\* websocket.send(test_message), which no timeout bounds, completes or raises.
SendDone(t) ==
  /\ Suspended
  /\ workers[t].pc = "sending"
  /\ \E next \in {IF outcome = "ok"
                     THEN [workers[t] EXCEPT !.pc = "handshaking",
                                             !.late = Elapse(workers[t], d)]
                     ELSE FailInside(workers[t], outcome, d) :
                   outcome \in {"ok", "timeout", "error"},
                   d \in Durations(MaxSendTime)} :
       workers' = [workers EXCEPT ![t] = next]
  /\ UNCHANGED <<config, control, events>>

\* wait_for(websocket.recv(), timeout=3.0): the echo arrives, the wait times
\* out, or it raises; after the echo, the first loop test.
HandshakeDone(t) ==
  /\ Suspended
  /\ workers[t].pc = "handshaking"
  /\ \E next \in {IF outcome = "ok"
                     THEN HoldLoopTest([workers[t] EXCEPT
                                          !.response_times = Sample(workers[t], ms)], d)
                     ELSE FailInside(workers[t], outcome, d) :
                   outcome \in {"ok", "timeout", "error"},
                   d \in Durations(HandshakeTimeout), ms \in Latencies} :
       workers' = [workers EXCEPT ![t] = next]
  /\ UNCHANGED <<config, control, events>>

\* websocket.send(keepalive_msg) in the hold loop, which no timeout bounds,
\* completes or raises. A sampled run is followed for MaxProbes keepalives of
\* each worker.
KeepaliveSendDone(t) ==
  /\ Suspended
  /\ workers[t].pc = "sending_keepalive"
  /\ workers[t].keepalive_count < MaxProbes
  /\ \E next \in {IF outcome = "ok"
                     THEN [workers[t] EXCEPT !.pc = "probing",
                                             !.late = Elapse(workers[t], d)]
                     ELSE FailInside(workers[t], outcome, d) :
                   outcome \in {"ok", "timeout", "error"},
                   d \in Durations(MaxSendTime)} :
       workers' = [workers EXCEPT ![t] = next]
  /\ UNCHANGED <<config, control, events>>

\* wait_for(websocket.recv(), timeout=2.0) in the hold loop.
ProbeDone(t) ==
  /\ Suspended
  /\ workers[t].pc = "probing"
  /\ \E next \in {IF outcome = "ok"
                     THEN [workers[t] EXCEPT
                             !.pc = "waiting", !.late = Elapse(workers[t], d),
                             !.response_times = Sample(workers[t], ms),
                             !.keepalive_count = IF sampled THEN @ + 1 ELSE @]
                     ELSE FailInside(workers[t], outcome, d) :
                   outcome \in {"ok", "timeout", "error"},
                   d \in Durations(KeepaliveTimeout), ms \in Latencies} :
       workers' = [workers EXCEPT ![t] = next]
  /\ UNCHANGED <<config, control, events>>

\* wait_for(end_event.wait(), timeout=check_interval): returns at once when the
\* event is set, otherwise when the interval has passed (TimeoutError,
\* ignored); then the loop test.
WaitDone(t) ==
  /\ Suspended
  /\ workers[t].pc = "waiting"
  /\ \E next \in {HoldLoopTest(workers[t], d) :
                   d \in (IF IsSet(workers[t].ev) THEN {0} ELSE Durations(CheckInterval))} :
       workers' = [workers EXCEPT ![t] = next]
  /\ UNCHANGED <<config, control, events>>

\* The close of the connection completes or raises, and the task ends: with
\* the success dict, or through an except clause.
CloseDone(t) ==
  /\ Suspended
  /\ workers[t].pc = "closing"
  /\ \E next \in {LET c == Exit(workers[t], close)
                   IN  [workers[t] EXCEPT !.pc = c.pc, !.result = c.result,
                                          !.leaving = "none",
                                          !.late = Elapse(workers[t], dc)] :
                   close \in CloseOutcomes, dc \in Durations(MaxCloseTime)} :
       workers' = [workers EXCEPT ![t] = next]
  /\ UNCHANGED <<config, control, events>>


\* ------------------------------------------- BatchCoordinator, both modes
NewEvent == [is_set |-> FALSE, set_calls |-> 0]

\* Variant of SetEvent that flips the flag.
SetEventToggle(e) == [is_set |-> ~e.is_set, set_calls |-> e.set_calls + 1]

\* event.set()
SetEvent(e) == [is_set |-> TRUE, set_calls |-> e.set_calls + 1]

\* The number of tasks the current batch launches.
BatchSize == IF cumulative_mode THEN num_new_connections ELSE current_connections

\* connection_id of the i-th task (i from 0) of the current batch.
ConnectionId(k) ==
  IF cumulative_mode THEN (total_connections - num_new_connections + k) + 1 ELSE k + 1

\* Variant of AllReturned in which main()'s gathers (cumulative mode) wait
\* for the first task only.
AllReturnedFirstInMain(ts) ==
  IF cumulative_mode
    THEN IF ts = <<>> THEN TRUE ELSE ~Live(workers[ts[1]])
    ELSE \A k \in DOMAIN ts : ~Live(workers[ts[k]])

AllReturned(ts) == \A k \in DOMAIN ts : ~Live(workers[ts[k]])

\* The gathered items that are dicts with success true / false; a task that
\* ended by raising contributes an exception object, which is neither.
IsSuccess(t) == workers[t].pc = "returned" /\ workers[t].result[1].success
\* Variant of IsFailure that recognises only the timeout dict.
IsFailureTimeoutOnly(t) ==
  /\ workers[t].pc = "returned"
  /\ ~workers[t].result[1].success
  /\ workers[t].result[1].error = "Timeout waiting for response"
IsFailure(t) == workers[t].pc = "returned" /\ ~workers[t].result[1].success
SuccessfulOf(ts) == SelectSeq(ts, IsSuccess)
FailedOf(ts) == SelectSeq(ts, IsFailure)
AnyRaised(ts) == \E k \in DOMAIN ts : workers[ts[k]].pc = "raised"

\* run_batch_test's return value (without the time measurements and the
\* per-connection results list).
IndependentBatchResult(n, b, ts) ==
  [batch |-> b, connections |-> n,
   successful |-> Len(SuccessfulOf(ts)), failed |-> Len(FailedOf(ts)),
   success_rate |-> SuccessRate(Len(SuccessfulOf(ts)), n)]

\* The batch_result dict main() builds in cumulative mode.
CumulativeBatchResult(n, total, b, ts) ==
  [batch |-> b, new_connections |-> n, total_connections |-> total,
   successful |-> Len(SuccessfulOf(ts)), failed |-> Len(FailedOf(ts)),
   success_rate |-> SuccessRate(Len(SuccessfulOf(ts)), n)]

\* run_batch_test raises instead of returning: gather() re-raises a task's
\* exception as soon as the task has raised it, and the summary, once every
\* task is gathered, divides by num_connections.
BatchRaises(n, ts) == AnyRaised(ts) \/ (AllReturned(ts) /\ n = 0)

\* ------------------------------------------------ ProgressionController
\* Mutant of StopRule: an unstable batch after a stable one does not stop the run.
StopRuleNeverStops(rate, last, threshold) ==
  IF RateGE(rate, threshold) THEN "stable" ELSE "continue"

\* The stop rule applied to a batch just appended.
StopRule(rate, last, threshold) ==
  IF RateGE(rate, threshold) THEN "stable"
  ELSE IF last # <<>> THEN "stop"
  ELSE "continue"

\* Mutant of NumNewConnections: the first batch is not treated specially.
NumNewConnectionsAlwaysIncrement(b) == connection_increment

\* start_connections if batch_number == 1 else connection_increment
NumNewConnections(b) == IF b = 1 THEN start_connections ELSE connection_increment

\* Variant of LoopCondition that lets one more batch through.
LoopConditionOneMore == current_connections <= max_connections + 1

\* while current_connections <= max_connections
LoopCondition == current_connections <= max_connections

\* `while current_connections <= max_connections`, cumulative branch up to
\* the creation of the batch's end_event.
BeginCumulativeBatch ==
  /\ pc = "loop"
  /\ cumulative_mode
  /\ LoopCondition
  /\ num_new_connections' = NumNewConnections(batch_number)
  /\ total_connections' = total_connections + NumNewConnections(batch_number)
  /\ events' = Append(events, NewEvent)
  /\ end_event' = Len(events) + 1
  /\ all_end_events' = Append(all_end_events, Len(events) + 1)
  /\ tasks' = <<>>
  /\ i' = 0
  /\ pc' = "launch"
  /\ UNCHANGED <<config, workers, batch_number, current_connections, last_stable_batch,
                 batch_results, all_active_tasks, remaining, verdict>>

\* Variant of BeginIndependentBatch that creates an event for the first
\* batch only and hands the same one to every later batch.
BeginIndependentBatchSharedEvent ==
  /\ pc = "loop"
  /\ ~cumulative_mode
  /\ LoopCondition
  /\ events' = IF events = <<>> THEN Append(events, NewEvent) ELSE events
  /\ end_event' = 1
  /\ tasks' = <<>>
  /\ i' = 0
  /\ pc' = "launch"
  /\ UNCHANGED <<config, workers, batch_number, current_connections, total_connections,
                 last_stable_batch, batch_results, all_active_tasks, all_end_events,
                 num_new_connections, remaining, verdict>>

\* The call of run_batch_test up to the creation of its end_event.
BeginIndependentBatch ==
  /\ pc = "loop"
  /\ ~cumulative_mode
  /\ LoopCondition
  /\ events' = Append(events, NewEvent)
  /\ end_event' = Len(events) + 1
  /\ tasks' = <<>>
  /\ i' = 0
  /\ pc' = "launch"
  /\ UNCHANGED <<config, workers, batch_number, current_connections, total_connections,
                 last_stable_batch, batch_results, all_active_tasks, all_end_events,
                 num_new_connections, remaining, verdict>>

\* The loop condition fails.
LoopExit ==
  /\ pc = "loop"
  /\ ~LoopCondition
  /\ pc' = "cleanup"
  /\ UNCHANGED <<config, workers, events, batch_number, current_connections,
                 total_connections, last_stable_batch, batch_results, all_active_tasks,
                 all_end_events, end_event, tasks, num_new_connections, i, remaining,
                 verdict>>

\* Variant of LaunchComplete whose loop is one iteration short.
LaunchCompleteOneShort == i >= BatchSize - 1

\* for i in range(<batch size>) is exhausted.
LaunchComplete == i >= BatchSize

\* asyncio.create_task(test_connection(...)) for the i-th connection, then
\* the optional sleep between launches (not after the last).
Launch ==
  /\ pc = "launch"
  /\ ~LaunchComplete
  /\ workers' = Append(workers, NewTask(ConnectionId(i), batch_number, end_event))
  /\ tasks' = Append(tasks, Len(workers) + 1)
  /\ all_active_tasks' = IF cumulative_mode THEN Append(all_active_tasks, Len(workers) + 1)
                                            ELSE all_active_tasks
  /\ IF delay > 0 /\ i < BatchSize - 1
       THEN pc' = "launch_sleep" /\ i' = i
       ELSE pc' = "launch" /\ i' = i + 1
  /\ UNCHANGED <<config, events, batch_number, current_connections, total_connections,
                 last_stable_batch, batch_results, all_end_events, end_event,
                 num_new_connections, remaining, verdict>>

\* asyncio.sleep(connection_delay) returns.
LaunchSleepDone ==
  /\ pc = "launch_sleep"
  /\ pc' = "launch"
  /\ i' = i + 1
  /\ UNCHANGED <<config, workers, events, batch_number, current_connections,
                 total_connections, last_stable_batch, batch_results, all_active_tasks,
                 all_end_events, end_event, tasks, num_new_connections, remaining, verdict>>

\* Every task of the batch is created: cumulative mode sleeps 0.5 s first,
\* independent mode goes straight to the hold countdown.
LaunchDone ==
  /\ pc = "launch"
  /\ LaunchComplete
  /\ IF cumulative_mode
       THEN pc' = "settle" /\ remaining' = remaining
       ELSE pc' = "hold" /\ remaining' = batch_duration
  /\ UNCHANGED <<config, workers, events, batch_number, current_connections,
                 total_connections, last_stable_batch, batch_results, all_active_tasks,
                 all_end_events, end_event, tasks, num_new_connections, i, verdict>>

\* asyncio.sleep(0.5) returns.
SettleDone ==
  /\ pc = "settle"
  /\ pc' = "hold"
  /\ remaining' = batch_duration
  /\ UNCHANGED <<config, workers, events, batch_number, current_connections,
                 total_connections, last_stable_batch, batch_results, all_active_tasks,
                 all_end_events, end_event, tasks, num_new_connections, i, verdict>>

\* One asyncio.sleep(1) of the hold countdown returns.
HoldTick ==
  /\ pc = "hold"
  /\ remaining > 0
  /\ remaining' = remaining - 1
  /\ UNCHANGED <<config, workers, events, pc, batch_number, current_connections,
                 total_connections, last_stable_batch, batch_results, all_active_tasks,
                 all_end_events, end_event, tasks, num_new_connections, i, verdict>>

\* end_event.set(), then the await of gather(*tasks).
SetSignal ==
  /\ pc = "hold"
  /\ remaining = 0
  /\ events' = [events EXCEPT ![end_event] = SetEvent(@)]
  /\ pc' = "gather"
  /\ UNCHANGED <<config, workers, batch_number, current_connections, total_connections,
                 last_stable_batch, batch_results, all_active_tasks, all_end_events,
                 end_event, tasks, num_new_connections, i, remaining, verdict>>

\* Variant of Record that classifies before it appends, so that the batch
\* that triggers the stop is not appended.
RecordBreakFirst(br) ==
  LET rule == StopRule(br.success_rate, last_stable_batch, stability_threshold)
  IN  /\ batch_results' = IF rule = "stop" THEN batch_results
                                           ELSE Append(batch_results, br)
      /\ last_stable_batch' = IF rule = "stable" THEN <<br>> ELSE last_stable_batch
      /\ IF rule = "stop"
           THEN /\ pc' = "cleanup"
                /\ UNCHANGED <<batch_number, current_connections>>
           ELSE /\ pc' = "pause"
                /\ batch_number' = batch_number + 1
                /\ current_connections' = current_connections + connection_increment

\* What main() does with a batch result: append, classify, then break or
\* advance to the pause before the next batch.
Record(br) ==
  LET rule == StopRule(br.success_rate, last_stable_batch, stability_threshold)
  IN  /\ batch_results' = Append(batch_results, br)
      /\ last_stable_batch' = IF rule = "stable" THEN <<br>> ELSE last_stable_batch
      /\ IF rule = "stop"
           THEN /\ pc' = "cleanup"
                /\ UNCHANGED <<batch_number, current_connections>>
           ELSE /\ pc' = "pause"
                /\ batch_number' = batch_number + 1
                /\ current_connections' = current_connections + connection_increment

\* gather returns in cumulative mode (return_exceptions=True).
GatherDoneCumulative ==
  /\ pc = "gather"
  /\ cumulative_mode
  /\ AllReturned(tasks)
  /\ Record(CumulativeBatchResult(num_new_connections, total_connections,
                                  batch_number, tasks))
  /\ UNCHANGED <<config, workers, events, total_connections, all_active_tasks,
                 all_end_events, end_event, tasks, num_new_connections, i, remaining,
                 verdict>>

\* gather returns in run_batch_test and the batch result is returned to main().
\* run_batch_test's task list is local: its finished tasks are no longer
\* referenced once it returns, and leave the model.
GatherDoneIndependent ==
  /\ pc = "gather"
  /\ ~cumulative_mode
  /\ AllReturned(tasks)
  /\ ~BatchRaises(current_connections, tasks)
  /\ Record(IndependentBatchResult(current_connections, batch_number, tasks))
  /\ workers' = SelectSeq(workers, Live)
  /\ tasks' = <<>>
  /\ UNCHANGED <<config, events, total_connections, all_active_tasks,
                 all_end_events, end_event, num_new_connections, i, remaining,
                 verdict>>

\* run_batch_test raises; nothing in main() catches it and the program ends.
BatchCrash ==
  /\ pc = "gather"
  /\ ~cumulative_mode
  /\ BatchRaises(current_connections, tasks)
  /\ pc' = "crashed"
  /\ UNCHANGED <<config, workers, events, batch_number, current_connections,
                 total_connections, last_stable_batch, batch_results, all_active_tasks,
                 all_end_events, end_event, tasks, num_new_connections, i, remaining,
                 verdict>>

\* asyncio.sleep(1) between batches returns.
PauseDone ==
  /\ pc = "pause"
  /\ pc' = "loop"
  /\ UNCHANGED <<config, workers, events, batch_number, current_connections,
                 total_connections, last_stable_batch, batch_results, all_active_tasks,
                 all_end_events, end_event, tasks, num_new_connections, i, remaining,
                 verdict>>

\* After the loop: cumulative mode sets every end_event and gathers every task.
Cleanup ==
  /\ pc = "cleanup"
  /\ IF cumulative_mode /\ all_end_events # <<>>
       THEN /\ events' = [e \in DOMAIN events |->
                            IF e \in Range(all_end_events) THEN SetEvent(events[e])
                                                           ELSE events[e]]
            /\ pc' = IF all_active_tasks # <<>> THEN "cleanup_gather" ELSE "analysis"
       ELSE /\ events' = events
            /\ pc' = "analysis"
  /\ UNCHANGED <<config, workers, batch_number, current_connections, total_connections,
                 last_stable_batch, batch_results, all_active_tasks, all_end_events,
                 end_event, tasks, num_new_connections, i, remaining, verdict>>

\* gather(*all_active_tasks, return_exceptions=True) returns.
CleanupGatherDone ==
  /\ pc = "cleanup_gather"
  /\ AllReturned(all_active_tasks)
  /\ pc' = "analysis"
  /\ UNCHANGED <<config, workers, events, batch_number, current_connections,
                 total_connections, last_stable_batch, batch_results, all_active_tasks,
                 all_end_events, end_event, tasks, num_new_connections, i, remaining,
                 verdict>>

\* ----------------------------------------------------- StabilityAnalyzer
\* Variant of CountOf that orders cumulative batches by their new connections.
CountOfNewConnections(r, cumulative) ==
  IF cumulative THEN r.new_connections ELSE r.connections

\* The count the analysis orders batches by: 'total_connections' in
\* cumulative mode, 'connections' otherwise.
CountOf(r, cumulative) == IF cumulative THEN r.total_connections ELSE r.connections

\* [r for r in batch_results if r['success_rate'] >= stability_threshold]
StableBatches(h, threshold) ==
  LET Test(r) == RateGE(r.success_rate, threshold) IN SelectSeq(h, Test)

\* [r for r in batch_results if r['success_rate'] < stability_threshold]
UnstableBatches(h, threshold) ==
  LET Test(r) == RateLT(r.success_rate, threshold) IN SelectSeq(h, Test)

\* Mutant of MaxByCount: takes the first batch instead of the largest.
MaxByCountFirst(h, cumulative) == h[1]

\* max(h, key=count): the first element whose count is the largest.
MaxByCount(h, cumulative) ==
  h[CHOOSE k \in DOMAIN h :
      /\ \A j \in DOMAIN h : CountOf(h[j], cumulative) <= CountOf(h[k], cumulative)
      /\ \A j \in 1..(k - 1) : CountOf(h[j], cumulative) < CountOf(h[k], cumulative)]

\* min(h, key=count): the first element whose count is the smallest.
MinByCount(h, cumulative) ==
  h[CHOOSE k \in DOMAIN h :
      /\ \A j \in DOMAIN h : CountOf(h[j], cumulative) >= CountOf(h[k], cumulative)
      /\ \A j \in 1..(k - 1) : CountOf(h[j], cumulative) > CountOf(h[k], cumulative)]

\* Mutant of WithinIncrement: strict comparison.
WithinIncrementStrict(max_stable, min_unstable, increment) ==
  min_unstable - max_stable < increment

\* Variant of WithinIncrement that leaves the increment out.
WithinIncrementNoGap(max_stable, min_unstable, increment) ==
  min_unstable - max_stable <= 0

\* min_unstable - max_stable <= connection_increment
WithinIncrement(max_stable, min_unstable, increment) ==
  min_unstable - max_stable <= increment

\* Mutant of FirstTestedCount: names the last batch's count.
LastTestedCount(h, start, cumulative) == CountOf(h[Len(h)], cumulative)

\* The count the "all tests showed instability" message names:
\* batch_results[0]['total_connections'] in cumulative mode, start_connections
\* otherwise.
FirstTestedCount(h, start, cumulative) ==
  IF cumulative THEN h[1].total_connections ELSE start

\* The final analysis of main(): which of its five messages it logs, with the
\* counts the message names.
Analyze(h, threshold, increment, start, cumulative) ==
  LET stable == StableBatches(h, threshold)
      unstable == UnstableBatches(h, threshold)
  IN  IF unstable # <<>>
        THEN IF stable # <<>>
               THEN LET max_stable == CountOf(MaxByCount(stable, cumulative), cumulative)
                        min_unstable == CountOf(MinByCount(unstable, cumulative), cumulative)
                    IN  IF WithinIncrement(max_stable, min_unstable, increment)
                          THEN <<"ceiling", max_stable, min_unstable>>
                          ELSE <<"range", max_stable, min_unstable>>
               ELSE <<"all_unstable", FirstTestedCount(h, start, cumulative)>>
        ELSE IF h # <<>>
               THEN <<"all_stable", CountOf(MaxByCount(h, cumulative), cumulative)>>
               ELSE <<"no_data">>

\* The final summary and analysis.
FinalAnalysis ==
  /\ pc = "analysis"
  /\ verdict' = Analyze(batch_results, stability_threshold, connection_increment,
                        start_connections, cumulative_mode)
  /\ pc' = "done"
  /\ UNCHANGED <<config, workers, events, batch_number, current_connections,
                 total_connections, last_stable_batch, batch_results, all_active_tasks,
                 all_end_events, end_event, tasks, num_new_connections, i, remaining>>

\* ------------------------------------------------------- specifications
\* main() up to the first test of the loop condition.
InitControl ==
  /\ pc = "loop"
  /\ batch_number = 1
  /\ current_connections = start_connections
  /\ total_connections = 0
  /\ last_stable_batch = <<>>
  /\ batch_results = <<>>
  /\ all_active_tasks = <<>>
  /\ all_end_events = <<>>
  /\ end_event = 0
  /\ tasks = <<>>
  /\ num_new_connections = 0
  /\ i = 0
  /\ remaining = 0
  /\ events = <<>>
  /\ workers = <<>>
  /\ verdict = <<>>

\* The run loop is bounded: the target advances at each batch
\* (current_connections += connection_increment), or is above max from the
\* start. With --increment 0 and start <= max the loop test never changes
\* and a run whose batches never regress goes on for ever: those
\* configurations are not drawn.
LoopBounded == connection_increment >= 1 \/ start_connections > max_connections

Init ==
  /\ start_connections \in StartSet
  /\ max_connections \in MaxSet
  /\ connection_increment \in IncrementSet
  /\ LoopBounded
  /\ batch_duration \in DurationSet
  /\ delay \in DelaySet
  /\ stability_threshold \in ThresholdSet
  /\ cumulative_mode \in BOOLEAN
  /\ timed = FALSE
  /\ sampled = FALSE
  /\ InitControl

Next ==
  \/ BeginCumulativeBatch
  \/ BeginIndependentBatch
  \/ LoopExit
  \/ Launch
  \/ LaunchSleepDone
  \/ LaunchDone
  \/ SettleDone
  \/ HoldTick
  \/ SetSignal
  \/ GatherDoneCumulative
  \/ GatherDoneIndependent
  \/ BatchCrash
  \/ PauseDone
  \/ Cleanup
  \/ CleanupGatherDone
  \/ FinalAnalysis
  \/ \E t \in DOMAIN workers : ConnectDone(t)
  \/ \E t \in DOMAIN workers : SendDone(t)
  \/ \E t \in DOMAIN workers : HandshakeDone(t)
  \/ \E t \in DOMAIN workers : KeepaliveSendDone(t)
  \/ \E t \in DOMAIN workers : ProbeDone(t)
  \/ \E t \in DOMAIN workers : WaitDone(t)
  \/ \E t \in DOMAIN workers : CloseDone(t)

Spec == Init /\ [][Next]_vars

\* One independent-mode batch (run_batch_test) with the durations of the
\* workers' waits counted.
InitTimed ==
  /\ start_connections \in {1, 2}
  /\ max_connections = start_connections
  /\ connection_increment = 1
  /\ batch_duration \in DurationSet
  /\ delay \in DelaySet
  /\ stability_threshold = 100
  /\ cumulative_mode = FALSE
  /\ timed = TRUE
  /\ sampled = FALSE
  /\ InitControl

NextTimed ==
  \/ BeginIndependentBatch
  \/ Launch
  \/ LaunchSleepDone
  \/ LaunchDone
  \/ HoldTick
  \/ SetSignal
  \/ GatherDoneIndependent
  \/ \E t \in DOMAIN workers : ConnectDone(t)
  \/ \E t \in DOMAIN workers : SendDone(t)
  \/ \E t \in DOMAIN workers : HandshakeDone(t)
  \/ \E t \in DOMAIN workers : KeepaliveSendDone(t)
  \/ \E t \in DOMAIN workers : ProbeDone(t)
  \/ \E t \in DOMAIN workers : WaitDone(t)
  \/ \E t \in DOMAIN workers : CloseDone(t)

SpecTimed == InitTimed /\ [][NextTimed]_vars

\* One independent-mode batch (run_batch_test) with the latencies of the
\* workers' round trips measured.
InitSamples ==
  /\ start_connections \in {1, 2}
  /\ max_connections = start_connections
  /\ connection_increment = 1
  /\ batch_duration \in DurationSet
  /\ delay = 0
  /\ stability_threshold = 100
  /\ cumulative_mode = FALSE
  /\ timed = FALSE
  /\ sampled = TRUE
  /\ InitControl

NextSamples ==
  \/ BeginIndependentBatch
  \/ Launch
  \/ LaunchDone
  \/ HoldTick
  \/ SetSignal
  \/ GatherDoneIndependent
  \/ \E t \in DOMAIN workers : ConnectDone(t)
  \/ \E t \in DOMAIN workers : SendDone(t)
  \/ \E t \in DOMAIN workers : HandshakeDone(t)
  \/ \E t \in DOMAIN workers : KeepaliveSendDone(t)
  \/ \E t \in DOMAIN workers : ProbeDone(t)
  \/ \E t \in DOMAIN workers : WaitDone(t)
  \/ \E t \in DOMAIN workers : CloseDone(t)

SpecSamples == InitSamples /\ [][NextSamples]_vars

\* The final analysis on its own, applied to any history of up to MaxHistory
\* batch results.
AnalyzerCounts == {8, 9, 10, 20}

\* The success_rate of a batch of n connections that all succeeded or all failed.
HistoryRates ==
  [n \in AnalyzerCounts \cup IncrementSet |->
     [ok \in BOOLEAN |-> SuccessRate(IF ok THEN n ELSE 0, n)]]

\* The k-th batch result of a history, at count c: in cumulative mode the
\* batch attempted its new connections only (the count for the first batch,
\* the increment afterwards), and c is the running total.
HistoryRecord(k, c, ok, cumulative, increment) ==
  IF cumulative
    THEN LET new == IF k = 1 THEN c ELSE increment
         IN  [batch |-> k, new_connections |-> new, total_connections |-> c,
              successful |-> IF ok THEN new ELSE 0, failed |-> IF ok THEN 0 ELSE new,
              success_rate |-> HistoryRates[new][ok]]
    ELSE [batch |-> k, connections |-> c,
          successful |-> IF ok THEN c ELSE 0, failed |-> IF ok THEN 0 ELSE c,
          success_rate |-> HistoryRates[c][ok]]

Histories(cumulative, increment) ==
  UNION {{[k \in 1..n |-> HistoryRecord(k, f[k][1], f[k][2], cumulative, increment)] :
            f \in [1..n -> AnalyzerCounts \X BOOLEAN]} : n \in 0..MaxHistory}

InitAnalyzer ==
  /\ start_connections \in AnalyzerCounts
  /\ max_connections = 20
  /\ connection_increment \in IncrementSet
  /\ batch_duration = 0
  /\ delay = 0
  /\ stability_threshold \in ThresholdSet
  /\ cumulative_mode \in BOOLEAN
  /\ timed = FALSE
  /\ sampled = FALSE
  /\ pc = "analysis"
  /\ batch_results \in Histories(cumulative_mode, connection_increment)
  /\ batch_number = 1
  /\ current_connections = start_connections
  /\ total_connections = 0
  /\ last_stable_batch = <<>>
  /\ all_active_tasks = <<>>
  /\ all_end_events = <<>>
  /\ end_event = 0
  /\ tasks = <<>>
  /\ num_new_connections = 0
  /\ i = 0
  /\ remaining = 0
  /\ events = <<>>
  /\ workers = <<>>
  /\ verdict = <<>>

NextAnalyzer == FinalAnalysis

SpecAnalyzer == InitAnalyzer /\ [][NextAnalyzer]_vars

\* ------------------------------------------------------------ properties
\* A batch result counts as stable: success_rate >= stability_threshold.
IsStable(r) == RateGE(r.success_rate, stability_threshold)

\* The count a batch was run at.
BatchCount(r) == CountOf(r, cumulative_mode)

\* The connections a batch attempted.
Attempted(r) == IF cumulative_mode THEN r.new_connections ELSE r.connections

\* The controller has left the run loop.
AfterLoop == pc \in {"cleanup", "cleanup_gather", "analysis", "done"}

\* C1: in both modes, when a stable batch at count C is followed by an
\* unstable batch at count C + increment, the run loop stops right after the
\* unstable batch (it is the last of the history, the controller has left the
\* loop, no task of a later batch exists) and last_stable_batch is the batch
\* at count C.
C1_StopAfterRegression ==
  \A k \in 1..(Len(batch_results) - 1) :
    (IsStable(batch_results[k]) /\ ~IsStable(batch_results[k + 1])) =>
      /\ BatchCount(batch_results[k + 1]) = BatchCount(batch_results[k]) + connection_increment
      /\ Len(batch_results) = k + 1
      /\ AfterLoop
      /\ batch_number = k + 1
      /\ \A t \in DOMAIN workers : workers[t].batch <= k + 1
      /\ last_stable_batch = <<batch_results[k]>>

\* A run that stopped after a regression although a further step was configured.
C1_Witness ==
  /\ pc = "done"
  /\ connection_increment >= 1
  /\ Len(batch_results) >= 2
  /\ IsStable(batch_results[Len(batch_results) - 1])
  /\ ~IsStable(batch_results[Len(batch_results)])
  /\ current_connections + connection_increment <= max_connections

\* C2: when no batch is stable, last_stable_batch stays empty and, with
\* increment >= 1, a run that has ended has run a batch at every count
\* start, start + increment, ... up to max.
C2_NoStableRunsEveryStep ==
  ((\A k \in DOMAIN batch_results : ~IsStable(batch_results[k]))
     /\ connection_increment >= 1) =>
    /\ last_stable_batch = <<>>
    /\ (AfterLoop \/ pc = "crashed") =>
         \A c \in start_connections..max_connections :
           (c - start_connections) % connection_increment = 0 =>
             \E k \in DOMAIN batch_results : BatchCount(batch_results[k]) = c

\* C3: in cumulative mode, while a task of batch k >= 2 is live, the end
\* events of batches 1..k-1 are unset and no task of those batches has
\* returned through its signal.
C3_EarlierBatchesStayOpen ==
  cumulative_mode =>
    \A t \in DOMAIN workers :
      (Live(workers[t]) /\ workers[t].batch >= 2) =>
        /\ \A j \in 1..(workers[t].batch - 1) : ~IsSet(all_end_events[j])
        /\ \A u \in DOMAIN workers :
             workers[u].batch < workers[t].batch => ~IsSuccess(u)

\* C4: every batch result of the history has successful + failed equal to
\* the connections it attempted and a success_rate between 0 and 100.
C4_BatchAccounting ==
  \A k \in DOMAIN batch_results :
    LET r == batch_results[k]
    IN  /\ r.successful + r.failed = Attempted(r)
        /\ FloatLE(FloatZero, r.success_rate)
        /\ FloatLE(r.success_rate, FromNat(100))

\* A batch result with both successful and failed connections.
C4_Witness ==
  \E k \in DOMAIN batch_results :
    batch_results[k].successful >= 1 /\ batch_results[k].failed >= 1

\* C5: a worker ends by returning exactly one ConnectionResult, whatever
\* happened to its connection, and never by raising: a live task has no
\* result, a finished one has returned one dict carrying its id and batch,
\* with an error reason exactly when it failed.
C5_OneResultNeverRaises ==
  \A t \in DOMAIN workers :
    LET w == workers[t]
    IN  /\ w.pc # "raised"
        /\ Live(w) => w.result = <<>>
        /\ ~Live(w) =>
             /\ w.pc = "returned"
             /\ Len(w.result) = 1
             /\ w.result[1].id = w.id
             /\ w.result[1].batch = w.batch
             /\ w.result[1].success <=> (w.result[1].error = "None")

\* Tasks that ended in each of the three ways: completed, timed out, failed.
C5_Witness ==
  /\ \E t \in DOMAIN workers : IsSuccess(t)
  /\ \E t \in DOMAIN workers :
       IsFailure(t) /\ workers[t].result[1].error = "Timeout waiting for response"
  /\ \E t \in DOMAIN workers :
       IsFailure(t) /\ workers[t].result[1].error = "Exception"

\* The counts of the stable and of the unstable batches of the history.
StableCounts == {BatchCount(batch_results[k]) :
                   k \in {j \in DOMAIN batch_results : IsStable(batch_results[j])}}
UnstableCounts == {BatchCount(batch_results[k]) :
                     k \in {j \in DOMAIN batch_results : ~IsStable(batch_results[j])}}
AllCounts == {BatchCount(batch_results[k]) : k \in DOMAIN batch_results}
Largest(S) == CHOOSE x \in S : \A y \in S : y <= x
Smallest(S) == CHOOSE x \in S : \A y \in S : x <= y

\* C6: for any history with a stable and an unstable batch, the analysis
\* reports the single ceiling max_stable when min_unstable - max_stable <=
\* increment and the range [max_stable, min_unstable] otherwise, max_stable
\* being the highest stable count and min_unstable the lowest unstable one.
C6_CeilingOrRange ==
  (pc = "done" /\ StableCounts # {} /\ UnstableCounts # {}) =>
    IF Smallest(UnstableCounts) - Largest(StableCounts) <= connection_increment
      THEN verdict = <<"ceiling", Largest(StableCounts), Smallest(UnstableCounts)>>
      ELSE verdict = <<"range", Largest(StableCounts), Smallest(UnstableCounts)>>

\* Stable up to 8, unstable from 20, increment 2: the range [8, 20].
C6_Witness ==
  /\ pc = "done"
  /\ connection_increment = 2
  /\ StableCounts # {} /\ Largest(StableCounts) = 8
  /\ UnstableCounts # {} /\ Smallest(UnstableCounts) = 20
  /\ verdict = <<"range", 8, 20>>

\* C7: at the end of a run, a history with only stable batches is reported
\* as stable through the highest tested count, one with only unstable
\* batches as unstable even at the smallest tested count, and an empty one
\* (start > max) as no data.
C7_VerdictByPartition ==
  pc = "done" =>
    /\ (batch_results = <<>>) <=> (start_connections > max_connections)
    /\ batch_results = <<>> => verdict = <<"no_data">>
    /\ (StableCounts # {} /\ UnstableCounts = {}) =>
         verdict = <<"all_stable", Largest(AllCounts)>>
    /\ (StableCounts = {} /\ UnstableCounts # {}) =>
         verdict = <<"all_unstable", Smallest(AllCounts)>>

\* A run of several batches, none of them stable.
C7_Witness ==
  /\ pc = "done"
  /\ connection_increment >= 1
  /\ Len(batch_results) >= 2
  /\ verdict = <<"all_unstable", start_connections>>

\* No connection of the run failed.
AllSucceeded == \A k \in DOMAIN batch_results : batch_results[k].failed = 0

\* What C8 promises of a finished run: floor((max - start)/increment) + 1
\* batches at start, start + increment, ..., each at 100 %, reported as
\* stable through the highest tested count.
AllStableOutcome ==
  /\ Len(batch_results) = ((max_connections - start_connections) \div connection_increment) + 1
  /\ \A k \in DOMAIN batch_results :
       /\ BatchCount(batch_results[k]) = start_connections + (k - 1) * connection_increment
       /\ FloatEQ(batch_results[k].success_rate, FromNat(100))
  /\ verdict = <<"all_stable",
                 start_connections + (Len(batch_results) - 1) * connection_increment>>

\* C8 as stated: when every worker of every batch succeeds and increment >= 1,
\* the finished run has the all-stable outcome.
C8_AllSucceedAsStated ==
  (pc = "done" /\ connection_increment >= 1 /\ AllSucceeded) => AllStableOutcome

\* C8 as amended: the same, for 1 <= start <= max and a threshold of at most 100.
C8_AllSucceedFromOneToMax ==
  (pc = "done" /\ connection_increment >= 1 /\ AllSucceeded
     /\ 1 <= start_connections /\ start_connections <= max_connections
     /\ stability_threshold <= 100) => AllStableOutcome

\* start 1, increment 1, max 3, every worker succeeded: three batches, stable through 3.
C8_Witness ==
  /\ pc = "done"
  /\ start_connections = 1 /\ connection_increment = 1 /\ max_connections = 3
  /\ stability_threshold <= 100
  /\ AllSucceeded
  /\ Len(batch_results) = 3
  /\ verdict = <<"all_stable", 3>>

\* C9: once its end event is set, a worker returns within one check interval
\* plus one in-flight timeout: the waiting it does after the set never adds
\* up to more than CheckInterval + HandshakeTimeout seconds.
C9_ReturnsWithinBound ==
  \A t \in DOMAIN workers : workers[t].late <= CheckInterval + HandshakeTimeout

RECURSIVE SumNewConnections(_, _)
SumNewConnections(h, k) ==
  IF k = 0 THEN 0 ELSE h[k].new_connections + SumNewConnections(h, k - 1)

\* C10: in cumulative mode the k-th batch result records total_connections =
\* the sum of new_connections of batches 1..k = start + (k-1)*increment, with
\* new_connections = start for batch 1 and increment afterwards.
C10_CumulativeTotal ==
  cumulative_mode =>
    \A k \in DOMAIN batch_results :
      /\ batch_results[k].batch = k
      /\ batch_results[k].new_connections =
           (IF k = 1 THEN start_connections ELSE connection_increment)
      /\ batch_results[k].total_connections = SumNewConnections(batch_results, k)
      /\ batch_results[k].total_connections =
           start_connections + (k - 1) * connection_increment

\* Three cumulative batches whose first differs in size from the later ones.
C10_Witness ==
  /\ cumulative_mode
  /\ Len(batch_results) >= 3
  /\ start_connections # connection_increment
  /\ connection_increment >= 1
  /\ batch_results[3].total_connections = start_connections + 2 * connection_increment

\* C11: a batch that launched workers always leaves its gather by appending
\* one batch result, whichever of its workers failed: at that step the
\* batch's signal is set, every launched worker has returned, every worker of
\* the batch was launched, and the new result counts each of them once, as
\* successful or as failed.
C11_FailuresNeverAbortBatch ==
  [][(pc = "gather" /\ pc' # "gather" /\ tasks # <<>>) =>
       /\ Len(batch_results') = Len(batch_results) + 1
       /\ IsSet(end_event)
       /\ \A k \in DOMAIN tasks : workers[tasks[k]].pc = "returned"
       /\ Len(tasks) = BatchSize
       /\ LET br == batch_results'[Len(batch_results')]
              nfailed == Cardinality({k \in DOMAIN tasks :
                                        ~workers[tasks[k]].result[1].success})
          IN  /\ br.batch = batch_number
              /\ br.failed = nfailed
              /\ br.successful = Len(tasks) - nfailed]_vars

\* A recorded batch of at least two workers in which every worker failed, and
\* one in which some failed and some succeeded.
C11_Witness ==
  /\ \E k \in DOMAIN batch_results :
       Attempted(batch_results[k]) >= 2 /\ batch_results[k].successful = 0
  /\ \E k \in DOMAIN batch_results :
       batch_results[k].successful >= 1 /\ batch_results[k].failed >= 1

\* C12, amended: the events of a batch occur in order. A worker is launched
\* only during the launch loop, before the batch's signal is set; the hold
\* countdown starts only when all BatchSize workers are launched and runs its
\* batch_duration seconds with the signal unset and no further launch; a
\* signal changes to set only as the current batch's signal, after the
\* countdown reached 0 with all workers launched; a worker returns success
\* only with its signal set (a worker that fails may return earlier); and a
\* batch result is appended only from gather, with the countdown at 0, the
\* signal set, all workers launched and every one of them returned.
C12_BatchOrder ==
  [][/\ (Len(tasks') > Len(tasks)) =>
          /\ pc = "launch"
          /\ Len(tasks) < BatchSize
          /\ ~IsSet(end_event)
     /\ (pc # "hold" /\ pc' = "hold") =>
          /\ Len(tasks) = BatchSize
          /\ remaining' = batch_duration
          /\ ~IsSet(end_event)
     /\ (pc = "hold" /\ pc' = "hold" /\ remaining' # remaining) =>
          /\ remaining' = remaining - 1
          /\ remaining' >= 0
          /\ tasks' = tasks
          /\ ~events'[end_event].is_set
     /\ \A e \in DOMAIN events :
          (~events[e].is_set /\ events'[e].is_set) =>
             /\ e = end_event
             /\ pc = "hold"
             /\ remaining = 0
             /\ Len(tasks) = BatchSize
     /\ (batch_results' # batch_results) =>
          /\ pc = "gather"
          /\ remaining = 0
          /\ IsSet(end_event)
          /\ Len(tasks) = BatchSize
          /\ \A k \in DOMAIN tasks : ~Live(workers[tasks[k]])
     /\ \A t \in DOMAIN workers :
          (/\ Live(workers[t])
           /\ t \in DOMAIN workers'
           /\ workers'[t].pc = "returned"
           /\ workers'[t].result[1].success) => IsSet(workers[t].ev)]_vars

\* C12 as stated: in addition, every worker of a batch returns after the
\* batch's signal is set, so that no task has ended while its signal is unset.
C12_BatchOrderAsStated ==
  /\ C12_BatchOrder
  /\ [](\A t \in DOMAIN workers : ~Live(workers[t]) => IsSet(workers[t].ev))

\* A batch of two workers launched with a sleep between them and held for a
\* second has set its signal and is waiting for a worker that is still live,
\* while its other worker has failed.
C12_Witness ==
  /\ pc = "gather"
  /\ BatchSize = 2
  /\ Len(tasks) = 2
  /\ delay > 0
  /\ batch_duration > 0
  /\ IsSet(end_event)
  /\ \E k \in DOMAIN tasks : Live(workers[tasks[k]])
  /\ \E k \in DOMAIN tasks : IsFailure(tasks[k])

\* C13: a worker that fails after its handshake echo (in the hold loop, with
\* latencies already collected) returns a failed result that carries those
\* latencies.
C13_FailedKeepsSamples ==
  \A t \in DOMAIN workers :
    (IsFailure(t) /\ workers[t].response_times # <<>>) =>
      /\ "response_times" \in DOMAIN workers[t].result[1]
      /\ workers[t].result[1].response_times = workers[t].response_times

\* C14: every successful result has at least one latency, exactly one more
\* than its keepalives (the first is the handshake round trip), and
\* 0 <= min_response <= avg_response <= max_response.
C14_SuccessStatsOrdered ==
  \A t \in DOMAIN workers :
    IsSuccess(t) =>
      LET r == workers[t].result[1]
      IN  /\ Len(r.response_times) >= 1
          /\ Len(r.response_times) = r.keepalive_count + 1
          /\ FloatLE(FloatZero, FromHundredths(r.min_response))
          /\ FloatLE(FromHundredths(r.min_response), r.avg_response)
          /\ FloatLE(r.avg_response, FromHundredths(r.max_response))

\* C15: a termination signal only moves from unset to set: no step removes
\* a signal or leaves a signal that was set unset, in either mode.
C15_SignalStaysSet ==
  [][\A e \in DOMAIN events :
       /\ e \in DOMAIN events'
       /\ events[e].is_set => events'[e].is_set]_vars

\* The first of two signals was set at the end of its batch, has gone
\* through the end-of-run cleanup and is still set.
C15_Witness ==
  /\ Len(events) >= 2
  /\ events[1].is_set
  /\ events[1].set_calls >= 2
  /\ pc = "done"

\* C16: the history is append-only and complete. A step either leaves the
\* history alone or appends exactly one result, numbered by its position;
\* nothing is appended once the loop has ended; a stop appends the unstable
\* batch that triggers it; and after the loop the history has one result for
\* every batch that was started (one per signal created).
C16_HistoryAppendOnly ==
  /\ [](/\ \A k \in DOMAIN batch_results : batch_results[k].batch = k
        /\ AfterLoop => Len(batch_results) = Len(events))
  /\ [][/\ \/ batch_results' = batch_results
           \/ /\ Len(batch_results') = Len(batch_results) + 1
              /\ SubSeq(batch_results', 1, Len(batch_results)) = batch_results
              /\ batch_results'[Len(batch_results')].batch = batch_number
        /\ AfterLoop => batch_results' = batch_results
        /\ (pc = "gather" /\ pc' = "cleanup") =>
             /\ Len(batch_results') = Len(batch_results) + 1
             /\ RateLT(batch_results'[Len(batch_results')].success_rate,
                       stability_threshold)]_vars

\* A run stopped by the stop rule after a stable batch: the analysis has run
\* on a history whose last entry is the unstable batch.
C16_Witness ==
  /\ pc = "done"
  /\ Len(batch_results) >= 2
  /\ last_stable_batch # <<>>
  /\ RateLT(batch_results[Len(batch_results)].success_rate, stability_threshold)
  /\ current_connections <= max_connections

\* C17: in cumulative mode, once the final results and analysis are being
\* produced every signal created during the run is set and every worker ever
\* launched has returned; all of them are the ones main() kept track of.
C17_CumulativeAllReleased ==
  (cumulative_mode /\ pc \in {"analysis", "done"}) =>
    /\ \A e \in DOMAIN events : events[e].is_set
    /\ \A t \in DOMAIN workers : ~Live(workers[t])
    /\ Range(all_end_events) = DOMAIN events
    /\ Range(all_active_tasks) = DOMAIN workers

\* A cumulative run of at least two batches and three workers, one of which
\* failed, has reached the analysis.
C17_Witness ==
  /\ cumulative_mode
  /\ pc = "analysis"
  /\ Len(events) >= 2
  /\ Len(workers) >= 3
  /\ \E t \in DOMAIN workers : IsFailure(t)

\* C18: a worker returns success only with its signal set; it leaves its
\* block with the success dict only from the loop test that follows the
\* handshake echo or the interval wait, with the signal set at that test, and
\* only a worker that left that way returns success; a worker whose probe is
\* in flight leaves, if it leaves in that step, with an exception (it then
\* returns a failed result), whether or not the signal is set.
C18_SuccessOnlyAfterSignal ==
  /\ [](\A t \in DOMAIN workers : IsSuccess(t) => IsSet(workers[t].ev))
  /\ [][\A t \in DOMAIN workers :
          (Live(workers[t]) /\ t \in DOMAIN workers') =>
             /\ (/\ workers[t].pc # "closing"
                 /\ workers'[t].pc = "closing"
                 /\ workers'[t].leaving = "return") =>
                  /\ workers[t].pc \in {"handshaking", "waiting"}
                  /\ IsSet(workers[t].ev)
             /\ (workers'[t].pc = "returned" /\ workers'[t].result[1].success) =>
                  /\ workers[t].pc = "closing"
                  /\ workers[t].leaving = "return"
             /\ (workers[t].pc = "probing" /\ workers'[t].pc = "closing") =>
                  workers'[t].leaving # "return"]_vars

\* In a batch whose signal is set and which is being gathered, one worker
\* has returned success and another has failed.
C18_Witness ==
  \E t, u \in DOMAIN workers :
    /\ IsSuccess(t)
    /\ IsFailure(u)
    /\ workers[t].ev = workers[u].ev
    /\ IsSet(workers[t].ev)
    /\ pc = "gather"

\* C19: last_stable_batch is the most recent batch of the history whose
\* success_rate is at least the threshold, and is empty when there is none;
\* a batch whose success_rate equals the threshold counts as stable, so it
\* becomes last_stable_batch and the loop does not stop on it.
C19_LastStableIsMostRecent ==
  LET atLeast == {k \in DOMAIN batch_results :
                    FloatLE(FromNat(stability_threshold), batch_results[k].success_rate)}
      last == Len(batch_results)
  IN  /\ atLeast = {} => last_stable_batch = <<>>
      /\ atLeast # {} =>
           last_stable_batch =
             <<batch_results[CHOOSE k \in atLeast : \A j \in atLeast : j <= k]>>
      /\ (/\ AfterLoop
          /\ last >= 1
          /\ FloatEQ(batch_results[last].success_rate, FromNat(stability_threshold)))
           => current_connections > max_connections

\* The latest batch succeeded at exactly the 50 % threshold after an
\* earlier batch that did better, and is the last stable batch.
C19_Witness ==
  /\ stability_threshold = 50
  /\ Len(batch_results) >= 2
  /\ batch_results[Len(batch_results)].successful = 1
  /\ batch_results[Len(batch_results)].failed = 1
  /\ batch_results[1].failed = 0
  /\ last_stable_batch = <<batch_results[Len(batch_results)]>>

\* C20: no signal receives a second set operation (workers never set one:
\* no worker step changes events).
C20_SignalSetOnce ==
  \A e \in DOMAIN events : events[e].set_calls <= 1

\* --------------------------------------------------- runs under fairness
\* The steps of main() and run_batch_test: one sequential coroutine.
ControllerStep ==
  \/ BeginCumulativeBatch
  \/ BeginIndependentBatch
  \/ LoopExit
  \/ Launch
  \/ LaunchSleepDone
  \/ LaunchDone
  \/ SettleDone
  \/ HoldTick
  \/ SetSignal
  \/ GatherDoneCumulative
  \/ GatherDoneIndependent
  \/ BatchCrash
  \/ PauseDone
  \/ Cleanup
  \/ CleanupGatherDone
  \/ FinalAnalysis

\* The steps of the task at position t of workers, if there is one.
WorkerStep(t) ==
  /\ t \in DOMAIN workers
  /\ \/ ConnectDone(t)
     \/ SendDone(t)
     \/ HandshakeDone(t)
     \/ KeepaliveSendDone(t)
     \/ ProbeDone(t)
     \/ WaitDone(t)
     \/ CloseDone(t)

\* Runs with increment >= 1 and at most FairMax connections.
FairMax == 2
FairSlots == 1..FairMax

InitFair ==
  /\ start_connections \in {0, 1, 2}
  /\ max_connections \in {1, FairMax}
  /\ connection_increment \in {1, 2}
  /\ batch_duration \in DurationSet
  /\ delay \in DelaySet
  /\ stability_threshold \in {50, 100}
  /\ cumulative_mode \in BOOLEAN
  /\ timed = FALSE
  /\ sampled = FALSE
  /\ InitControl

NextFair ==
  \/ BeginCumulativeBatch
  \/ BeginIndependentBatch
  \/ LoopExit
  \/ Launch
  \/ LaunchSleepDone
  \/ LaunchDone
  \/ SettleDone
  \/ HoldTick
  \/ SetSignal
  \/ GatherDoneCumulative
  \/ GatherDoneIndependent
  \/ BatchCrash
  \/ PauseDone
  \/ Cleanup
  \/ CleanupGatherDone
  \/ FinalAnalysis
  \/ \E t \in DOMAIN workers : ConnectDone(t)
  \/ \E t \in DOMAIN workers : SendDone(t)
  \/ \E t \in DOMAIN workers : HandshakeDone(t)
  \/ \E t \in DOMAIN workers : KeepaliveSendDone(t)
  \/ \E t \in DOMAIN workers : ProbeDone(t)
  \/ \E t \in DOMAIN workers : WaitDone(t)
  \/ \E t \in DOMAIN workers : CloseDone(t)

\* The event loop runs every coroutine that is ready, and every wait of a
\* worker ends (each worker eventually returns).
SpecFair ==
  /\ InitFair
  /\ [][NextFair]_vars
  /\ WF_vars(ControllerStep)
  /\ \A t \in FairSlots : WF_vars(WorkerStep(t))

\* The run is over: the analysis is printed, or the program ended with an
\* exception.
Terminated == pc \in {"done", "crashed"}

\* floor((max - start) / increment) + 1, for increment >= 1
MaxBatchCount == ((max_connections - start_connections) \div connection_increment) + 1

\* C21: with increment >= 1 the run terminates, and at every moment at most
\* floor((max - start)/increment) + 1 batches have been started; the target
\* count of batch k is start + (k-1)*increment, as the loop holds it and as
\* the history records it, and no batch is started at a target above max.
C21_TerminatesWithinBound ==
  /\ [](connection_increment >= 1 =>
          /\ Len(events) <= (IF MaxBatchCount > 0 THEN MaxBatchCount ELSE 0)
          /\ current_connections =
               start_connections + (batch_number - 1) * connection_increment
          /\ Len(events) > Len(batch_results) =>
               /\ Len(events) = batch_number
               /\ current_connections <= max_connections
          /\ \A k \in DOMAIN batch_results :
               /\ BatchCount(batch_results[k]) =
                    start_connections + (k - 1) * connection_increment
               /\ BatchCount(batch_results[k]) <= max_connections)
  /\ (connection_increment >= 1 => <>Terminated)

\* A run of increment 1 from 1 to 2 has ended after exactly its two batches.
C21_Witness ==
  /\ pc = "done"
  /\ connection_increment = 1
  /\ start_connections = 1
  /\ max_connections = 2
  /\ Len(events) = 2
  /\ Len(batch_results) = 2

\* C22: in independent mode batches never overlap. The live workers all
\* belong to the current batch and hold its signal, which is the one created
\* last; a batch begins with no worker live and creates a new, unset signal;
\* and a worker is launched only while no worker of an earlier batch is live.
C22_IndependentNoOverlap ==
  /\ [](~cumulative_mode =>
          \A t \in DOMAIN workers :
            Live(workers[t]) =>
              /\ workers[t].batch = batch_number
              /\ workers[t].ev = end_event
              /\ end_event = Len(events))
  /\ [][~cumulative_mode =>
          /\ (pc = "loop" /\ pc' = "launch") =>
               /\ \A t \in DOMAIN workers : ~Live(workers[t])
               /\ Len(events') = Len(events) + 1
               /\ SubSeq(events', 1, Len(events)) = events
               /\ end_event' = Len(events')
               /\ ~events'[end_event'].is_set
          /\ (Len(workers') > Len(workers)) =>
               \A t \in DOMAIN workers :
                 Live(workers[t]) => workers[t].batch = batch_number]_vars

\* The second independent batch has two live workers on its own unset
\* signal while the first batch's signal is set.
C22_Witness ==
  /\ ~cumulative_mode
  /\ batch_number = 2
  /\ Len(events) = 2
  /\ events[1].is_set
  /\ ~events[2].is_set
  /\ Cardinality({t \in DOMAIN workers :
                    Live(workers[t]) /\ workers[t].ev = 2}) = 2

\* C23: in both modes a batch of 0 connections runs to completion: it leaves
\* its gather by appending a batch result with successful = 0, failed = 0 and
\* success_rate = 0, and the run goes on.
C23_ZeroBatchCompletes ==
  [][(pc = "gather" /\ pc' # "gather" /\ BatchSize = 0) =>
       /\ pc' \in {"pause", "cleanup"}
       /\ Len(batch_results') = Len(batch_results) + 1
       /\ LET br == batch_results'[Len(batch_results')]
          IN  /\ br.successful = 0
              /\ br.failed = 0
              /\ FloatEQ(br.success_rate, FloatZero)]_vars

\* C24: with increment >= 1, whenever the history has both a stable and an
\* unstable batch, the lowest unstable count exceeds the highest stable
\* count by at most the increment, and the final analysis reports the single
\* ceiling: it never reports a range.
C24_NeverOpenRange ==
  connection_increment >= 1 =>
    /\ (StableCounts # {} /\ UnstableCounts # {}) =>
         Smallest(UnstableCounts) - Largest(StableCounts) <= connection_increment
    /\ pc = "done" =>
         /\ verdict[1] # "range"
         /\ (StableCounts # {} /\ UnstableCounts # {}) =>
              verdict = <<"ceiling", Largest(StableCounts), Smallest(UnstableCounts)>>

\* A run of increment 2 stopped by an unstable batch two above a stable one
\* and reported as a ceiling.
C24_Witness ==
  /\ pc = "done"
  /\ connection_increment = 2
  /\ StableCounts # {}
  /\ UnstableCounts # {}
  /\ Smallest(UnstableCounts) = Largest(StableCounts) + 2
  /\ verdict[1] = "ceiling"

\* C25: whenever the final analysis reports a single ceiling max_stable,
\* the lowest unstable count it names is strictly greater than max_stable.
C25_CeilingBelowUnstable ==
  (pc = "done" /\ verdict[1] = "ceiling") => verdict[3] > verdict[2]

\* C26: at the end of a run with increment >= 1 and at least one stable
\* batch, the batch the analysis selects as max_stable is the batch the
\* controller holds as last_stable_batch, and the count the analysis reports
\* for it is that batch's count.
C26_MaxStableIsLastStable ==
  (connection_increment >= 1 /\ pc \in {"analysis", "done"}
     /\ StableBatches(batch_results, stability_threshold) # <<>>) =>
    /\ last_stable_batch =
         <<MaxByCount(StableBatches(batch_results, stability_threshold), cumulative_mode)>>
    /\ pc = "done" => verdict[2] = BatchCount(last_stable_batch[1])

\* A finished cumulative run whose first batch was unstable and whose
\* second and third were stable.
C26_Witness ==
  /\ pc = "done"
  /\ cumulative_mode
  /\ connection_increment >= 1
  /\ Len(batch_results) >= 3
  /\ ~IsStable(batch_results[1])
  /\ IsStable(batch_results[2])
  /\ IsStable(batch_results[3])
  /\ last_stable_batch = <<batch_results[3]>>

====
